---- MODULE Spec2Model ----
(***************************************************************************)
(* Model of the Meshtastic weather proxy (src/prox.py): the five-minute    *)
(* station-list cache (get_nodes_data), the station selection              *)
(* (find_best_matching_node, find_nearest_node) and the HTTP handlers      *)
(* (do_GET, handle_api, proxy_nodes, serve_html).                          *)
(*                                                                         *)
(* The server is an http.server.HTTPServer: it answers one request at a    *)
(* time, so in Spec every handler is one atomic action.  SelSpec applies   *)
(* the pure selector to inputs drawn from bounded sets.  NonFiniteSpec is  *)
(* the server asked for /api with NaN and infinite coordinates.  RaceSpec  *)
(* runs several get_nodes_data calls at once, one statement at a time.     *)
(***************************************************************************)
EXTENDS Integers, Sequences, FiniteSets, TLC

VARIABLES
    cache,        \* the module-global cache dict: [data, timestamp]
    now,          \* what time() returns at this instant (whole seconds)
    resp,         \* the request answered at this instant and its response
    lastRefresh,  \* history: start time of the last call that returned MISS
    hist,         \* history: the last refreshing request, the last failure
    sel,          \* SelSpec: one application of find_best_matching_node
    calls,        \* RaceSpec: the frame of each running get_nodes_data call
    refreshes     \* RaceSpec history: the fetches made, the last writer

vars == <<cache, now, resp, lastRefresh, hist, sel, calls, refreshes>>

----------------------------------------------------------------------------
(* Bounds of the model.                                                    *)

\* longest station list handed to the selector in SelSpec
MaxNodes == 3
\* longest station list the upstream serves in Spec
MaxUpstreamNodes == 2
\* number of get_nodes_data calls that run at once in RaceSpec
MaxCalls == 2

----------------------------------------------------------------------------
(* Python values.  A JSON/Python value that the code tests with `is None`  *)
(* and converts with float() is one of: None, a number, or a string that   *)
(* float() rejects.                                                        *)

None == [t |-> "none", v |-> 0]
Num(x) == [t |-> "num", v |-> x]
\* a string float() raises ValueError on, such as "n/a"
Str == [t |-> "str", v |-> 0]

is_None(x) == x.t = "none"
\* float(x) raises exactly for the non-numeric string
float_raises(x) == x.t = "str"

Abs(x) == IF x < 0 THEN -x ELSE x

\* the floats that are not finite: float('nan') and float('inf').  They are
\* held as two integers outside the range of the coordinates and distances
NaN == 0 - 1
Infinity == 0 - 2

is_finite(x) == x # NaN /\ x # Infinity

CACHE_DURATION == 300

----------------------------------------------------------------------------
(* calculate_distance.  The haversine value is tabulated, in metres, from  *)
(* the function itself on the grid of coordinates the model uses           *)
(* (multiples of 10 degrees): row = (lat1, lat2), column = lon2 - lon1     *)
(* in -20, -10, 0, 10, 20.                                                 *)

HaversineTable ==
    << << <<2223899, 1111949,       0, 1111949, 2223899>>,     \* lat1 = 0,  lat2 = 0
          <<2476171, 1568521, 1111949, 1568521, 2476171>>,     \* lat1 = 0,  lat2 = 10
          <<3112445, 2476171, 2223899, 2476171, 3112445>> >>,  \* lat1 = 0,  lat2 = 20
       << <<2476171, 1568521, 1111949, 1568521, 2476171>>,     \* lat1 = 10, lat2 = 0
          <<2189773, 1095014,       0, 1095014, 2189773>>,     \* lat1 = 10, lat2 = 10
          <<2415242, 1544758, 1111949, 1544758, 2415242>> >>,  \* lat1 = 10, lat2 = 20
       << <<3112445, 2476171, 2223899, 2476171, 3112445>>,     \* lat1 = 20, lat2 = 0
          <<2415242, 1544758, 1111949, 1544758, 2415242>>,     \* lat1 = 20, lat2 = 10
          <<2088527, 1044735,       0, 1044735, 2088527>> >> >> \* lat1 = 20, lat2 = 20

\* math.sin raises ValueError ("math domain error") on an infinite angle
calculate_distance_raises(lat1, lon1, lat2, lon2) ==
    Infinity \in {lat1, lon1, lat2, lon2}

\* variant: d_lat and the first cosine are computed as if lat1 were 0
calculate_distance_from_equator(lat1, lon1, lat2, lon2) ==
    LET d_lon == lon2 - lon1
    IN  IF NaN \in {lat1, lon1, lat2, lon2} THEN NaN
        ELSE HaversineTable[1][(lat2 \div 10) + 1][(d_lon \div 10) + 3]

\* the value returned when nothing is raised; a NaN argument gives NaN
calculate_distance(lat1, lon1, lat2, lon2) ==
    LET d_lon == lon2 - lon1
    IN  IF NaN \in {lat1, lon1, lat2, lon2} THEN NaN
        ELSE HaversineTable[(lat1 \div 10) + 1][(lat2 \div 10) + 1][(d_lon \div 10) + 3]

\* round(x, 2) of a distance in km, the distance being held in metres:
\* the result is in hundredths of a km (units of 10 m); round(nan, 2) is nan
round2_km(metres) == IF metres = NaN THEN NaN ELSE (metres + 5) \div 10

----------------------------------------------------------------------------
(* Stations (the dicts of the upstream JSON array).                        *)

Station(name, lat, lon, temp, hum, pres) ==
    [name |-> name, latitude |-> lat, longitude |-> lon, temperature |-> temp,
     relative_humidity |-> hum, barometric_pressure |-> pres]

\* complete stations
StA == Station("A", Num(0), Num(10), Num(18), Num(50), Num(1000))
StJ == Station("J", Num(10), Num(0), Num(18), Num(50), Num(1000))
StB == Station("B", Num(0), Num(0), Num(11), Num(50), Num(1000))
StC == Station("C", Num(0), Num(20), Num(16), Num(50), Num(1000))
\* stations with one required field missing
StNoLat == Station("noLat", None, Num(0), Num(17), Num(50), Num(1000))
StNoLon == Station("noLon", Num(0), None, Num(17), Num(50), Num(1000))
StNoTemp == Station("noTemp", Num(0), Num(0), None, Num(50), Num(1000))
StNoHum == Station("noHum", Num(0), Num(0), Num(17), None, Num(1000))
StNoPres == Station("noPres", Num(0), Num(0), Num(17), Num(50), None)
\* a station that only reports its position
StE == Station("E", Num(10), Num(10), None, None, None)
\* complete stations one of whose values is not a number
StBadLat == Station("badLat", Str, Num(0), Num(17), Num(50), Num(1000))
StBadTemp == Station("badTemp", Num(0), Num(0), Str, Num(50), Num(1000))

Stations == {StA, StJ, StB, StC, StNoLat, StNoLon, StNoTemp, StNoHum,
             StNoPres, StE, StBadLat, StBadTemp}

SeqsUpTo(S, n) == UNION {[1..k -> S] : k \in 0..n}

----------------------------------------------------------------------------
(* sorted(seq, key=...): Python's sort is stable, here as insertion sort.  *)
(* Keys are tuples of numbers, compared as Python compares tuples.         *)

RECURSIVE tuple_less(_, _)
tuple_less(k1, k2) ==
    IF k1 = <<>> \/ k2 = <<>> THEN k1 = <<>> /\ k2 # <<>>
    ELSE IF Head(k1) = NaN \/ Head(k2) = NaN THEN FALSE  \* nan < x, x < nan
    ELSE IF Head(k1) # Head(k2) THEN Head(k1) < Head(k2)
    ELSE tuple_less(Tail(k1), Tail(k2))

RECURSIVE insert_stable(_, _)

\* variant: x goes before the elements of equal key (not stable)
insert_before_equal(x, s) ==
    IF s = <<>> THEN <<x>>
    ELSE IF ~tuple_less(Head(s).key, x.key) THEN <<x>> \o s
    ELSE <<Head(s)>> \o insert_stable(x, Tail(s))

\* one insertion: x goes after every element whose key is not greater
\* than x's (elements are [key, item] pairs)
insert_stable(x, s) ==
    IF s = <<>> THEN <<x>>
    ELSE IF tuple_less(x.key, Head(s).key) THEN <<x>> \o s
    ELSE <<Head(s)>> \o insert_stable(x, Tail(s))

RECURSIVE sort_stable(_)
sort_stable(s) ==
    IF s = <<>> THEN <<>>
    ELSE insert_stable(s[Len(s)], sort_stable(SubSeq(s, 1, Len(s) - 1)))

\* the two key functions handed to sorted()
key_distance(c) == <<c.distance_km>>
\* variant: distance first, temperature difference second
key_distance_then_temp(c) == <<c.distance_km, c.temp_diff.v>>
key_temp_then_distance(c) == <<c.temp_diff.v, c.distance_km>>

key_of(c, key) ==
    IF key = "distance_km" THEN key_distance(c) ELSE key_temp_then_distance(c)

\* sorted(s, key=...), key naming one of the two key functions
sorted(s, key) ==
    LET decorated == [i \in 1..Len(s) |-> [key |-> key_of(s[i], key), item |-> s[i]]]
        ordered == sort_stable(decorated)
    IN  [i \in 1..Len(s) |-> ordered[i].item]

----------------------------------------------------------------------------
(* find_nearest_node: the nearest station that has both coordinates.  A    *)
(* station is named by its position in the list (the code returns the list *)
(* element itself); 0 stands for None.                                     *)

NearestStart == [raised |-> FALSE, nearest |-> 0, inf |-> TRUE, min_distance |-> 0]

RECURSIVE nearest_loop(_, _, _, _, _)
nearest_loop(user_lat, user_lon, nodes, i, acc) ==
    IF i > Len(nodes) THEN acc
    ELSE LET node == nodes[i]
             node_lat == node.latitude
             node_lon == node.longitude
         IN  IF is_None(node_lat) \/ is_None(node_lon)
             THEN nearest_loop(user_lat, user_lon, nodes, i + 1, acc)
             ELSE IF float_raises(node_lat) \/ float_raises(node_lon)
             THEN [acc EXCEPT !.raised = TRUE]
             ELSE IF calculate_distance_raises(user_lat, user_lon, node_lat.v, node_lon.v)
             THEN [acc EXCEPT !.raised = TRUE]
             ELSE LET distance == calculate_distance(user_lat, user_lon, node_lat.v, node_lon.v)
                  IN  \* nan < x is False, whatever x
                      IF distance # NaN /\ (acc.inf \/ distance < acc.min_distance)
                      THEN nearest_loop(user_lat, user_lon, nodes, i + 1,
                               [raised |-> FALSE, nearest |-> i, inf |-> FALSE,
                                min_distance |-> distance])
                      ELSE nearest_loop(user_lat, user_lon, nodes, i + 1, acc)

find_nearest_node(user_lat, user_lon, nodes) ==
    nearest_loop(user_lat, user_lon, nodes, 1, NearestStart)

----------------------------------------------------------------------------
(* find_best_matching_node.                                                *)

NoCandidate == [node |-> 0, distance_km |-> 0, temp_diff |-> None]

\* variant: the humidity test is left out
skips_node_without_humidity(node) ==
    \/ is_None(node.latitude)
    \/ is_None(node.longitude)
    \/ is_None(node.temperature)
    \/ is_None(node.barometric_pressure)

\* the five `is None` tests that skip a station
skips_node(node) ==
    \/ is_None(node.latitude)
    \/ is_None(node.longitude)
    \/ is_None(node.temperature)
    \/ is_None(node.relative_humidity)
    \/ is_None(node.barometric_pressure)

\* the float() conversions and the distance computation made for a
\* station that is not skipped: whether one of them raises
candidate_raises(user_lat, user_lon, node, ref_temp) ==
    \/ float_raises(node.latitude)
    \/ float_raises(node.longitude)
    \/ calculate_distance_raises(user_lat, user_lon, node.latitude.v, node.longitude.v)
    \/ (~is_None(ref_temp) /\ (float_raises(node.temperature) \/ float_raises(ref_temp)))

\* variant: no stand-in, the difference is None without a reference
make_candidate_null_diff(user_lat, user_lon, nodes, i, ref_temp) ==
    LET node == nodes[i]
        distance_km == calculate_distance(user_lat, user_lon,
                                          node.latitude.v, node.longitude.v)
    IN  [node |-> i, distance_km |-> distance_km,
         temp_diff |-> IF ~is_None(ref_temp)
                       THEN Num(Abs(node.temperature.v - ref_temp.v))
                       ELSE None]

make_candidate(user_lat, user_lon, nodes, i, ref_temp) ==
    LET node == nodes[i]
        distance_km == calculate_distance(user_lat, user_lon,
                                          node.latitude.v, node.longitude.v)
        temp_diff == IF ~is_None(ref_temp)
                     THEN Abs(node.temperature.v - ref_temp.v)
                     ELSE 0
    IN  [node |-> i, distance_km |-> distance_km, temp_diff |-> Num(temp_diff)]

\* the loop over nodes: the candidates list, or the exception float() raised
RECURSIVE candidates_loop(_, _, _, _, _, _)
candidates_loop(user_lat, user_lon, nodes, ref_temp, i, acc) ==
    IF i > Len(nodes) THEN acc
    ELSE IF skips_node(nodes[i])
    THEN candidates_loop(user_lat, user_lon, nodes, ref_temp, i + 1, acc)
    ELSE IF candidate_raises(user_lat, user_lon, nodes[i], ref_temp)
    THEN [acc EXCEPT !.raised = TRUE]
    ELSE candidates_loop(user_lat, user_lon, nodes, ref_temp, i + 1,
             [acc EXCEPT !.candidates =
                 Append(@, make_candidate(user_lat, user_lon, nodes, i, ref_temp))])

\* variant: the tolerance is exclusive
within_tolerance_strict(c) == c.temp_diff.v < 2

within_tolerance(c) == c.temp_diff.v <= 2

\* [c for c in candidates if c['temp_diff'] <= 2]
RECURSIVE matching_of(_)
matching_of(candidates) ==
    IF candidates = <<>> THEN <<>>
    ELSE (IF within_tolerance(Head(candidates)) THEN <<Head(candidates)>> ELSE <<>>)
         \o matching_of(Tail(candidates))

select_best(candidates, ref_temp) ==
    IF is_None(ref_temp)
    THEN sorted(candidates, "distance_km")[1]
    ELSE LET matching == matching_of(candidates)
         IN  IF matching # <<>>
             THEN sorted(matching, "distance_km")[1]
             ELSE sorted(candidates, "temp_diff,distance_km")[1]

find_best_matching_node(user_lat, user_lon, nodes, openmeteo_current) ==
    LET ref_temp == openmeteo_current.temperature_2m
        built == candidates_loop(user_lat, user_lon, nodes, ref_temp, 1,
                                 [raised |-> FALSE, candidates |-> <<>>])
    IN  IF built.raised
        THEN [raised |-> TRUE, node |-> 0, details |-> NoCandidate]
        ELSE IF built.candidates = <<>>
        THEN [raised |-> FALSE, node |-> 0, details |-> NoCandidate]
        ELSE LET best == select_best(built.candidates, ref_temp)
             IN  [raised |-> FALSE, node |-> best.node, details |-> best]

----------------------------------------------------------------------------
(* The upstream station list and the cache.                                *)

\* cache['data']: None, or the bytes of a response body.  A body either
\* decodes (json.loads) to a list of stations or does not decode.
NoData == [t |-> "none", json_ok |-> FALSE, nodes |-> <<>>]
Bytes(nodes) == [t |-> "bytes", json_ok |-> TRUE, nodes |-> nodes]
Garbage == [t |-> "bytes", json_ok |-> FALSE, nodes |-> <<>>]

\* the cache dict as the module creates it
EmptyCache == [data |-> NoData, timestamp |-> 0]

\* the stations the upstream serves in Spec
UpstreamStations == {StA, StE, StNoTemp, StNoLat}

Payloads == {Bytes(nodes) : nodes \in SeqsUpTo(UpstreamStations, MaxUpstreamNodes)}
            \cup {Garbage}

\* what urlopen('https://api.bolte.lol/nodes') + read() does when called
UpstreamOutcomes ==
    {[fails |-> TRUE, data |-> NoData]} \cup {[fails |-> FALSE, data |-> p] : p \in Payloads}

\* the instants at which the model lets time() be read
Instants == {0, 1, 299, 300, 301, 600}

\* longest time, in seconds, one upstream fetch takes
MaxFetchSeconds == 1

\* the instants at which a fetch started at t may return
FetchEnds(t) == {e \in Instants : t <= e /\ e <= t + MaxFetchSeconds}

\* variant: an entry exactly CACHE_DURATION old still counts as valid
cache_is_valid_inclusive(c, current_time) ==
    LET cache_age == current_time - c.timestamp
    IN  c.data # NoData /\ cache_age <= CACHE_DURATION

cache_is_valid(c, current_time) ==
    LET cache_age == current_time - c.timestamp
    IN  c.data # NoData /\ cache_age < CACHE_DURATION

\* variant: the time is read again after the fetch
stored_timestamp_after_fetch(current_time, end_time) == end_time

\* the timestamp a refresh stores: the time read at the start of the call
stored_timestamp(current_time, end_time) == current_time

\* variant: the entry is dropped before the fetch is attempted
refresh_drops_entry_first(c, current_time, end_time, up) ==
    IF up.fails
    THEN [raised |-> TRUE, data |-> NoData, status |-> "",
          cache |-> [data |-> NoData, timestamp |-> 0],
          fetches |-> 1, end |-> end_time]
    ELSE [raised |-> FALSE, data |-> up.data, status |-> "MISS",
          cache |-> [data |-> up.data, timestamp |-> current_time],
          fetches |-> 1, end |-> end_time]

\* the refresh path of get_nodes_data, the fetch having ended at end_time
\* with outcome up (status "" and raised: urlopen or read raised)
refresh(c, current_time, end_time, up) ==
    IF up.fails
    THEN [raised |-> TRUE, data |-> NoData, status |-> "", cache |-> c,
          fetches |-> 1, end |-> end_time]
    ELSE [raised |-> FALSE, data |-> up.data, status |-> "MISS",
          cache |-> [data |-> up.data,
                     timestamp |-> stored_timestamp(current_time, end_time)],
          fetches |-> 1, end |-> end_time]

\* variant: a failed fetch is attempted a second time
get_nodes_data_retrying(c, current_time) ==
    IF cache_is_valid(c, current_time)
    THEN {[raised |-> FALSE, data |-> c.data, status |-> "HIT", cache |-> c,
           fetches |-> 0, end |-> current_time]}
    ELSE {refresh(c, current_time, end_time, up) :
             end_time \in FetchEnds(current_time),
             up \in {o \in UpstreamOutcomes : ~o.fails}}
         \cup {[refresh(c, current_time, end_time, up) EXCEPT !.fetches = 2] :
                  end_time \in FetchEnds(current_time), up \in UpstreamOutcomes}

\* variant: a cached body that does not decode is fetched anew
get_nodes_data_skips_undecodable(c, current_time) ==
    IF cache_is_valid(c, current_time) /\ c.data.json_ok
    THEN {[raised |-> FALSE, data |-> c.data, status |-> "HIT", cache |-> c,
           fetches |-> 0, end |-> current_time]}
    ELSE {refresh(c, current_time, end_time, up) :
             end_time \in FetchEnds(current_time), up \in UpstreamOutcomes}

\* get_nodes_data called at current_time: the set of its possible outcomes
\* (one on a hit; one per upstream outcome and fetch duration otherwise)
get_nodes_data(c, current_time) ==
    IF cache_is_valid(c, current_time)
    THEN {[raised |-> FALSE, data |-> c.data, status |-> "HIT", cache |-> c,
           fetches |-> 0, end |-> current_time]}
    ELSE {refresh(c, current_time, end_time, up) :
             end_time \in FetchEnds(current_time), up \in UpstreamOutcomes}

----------------------------------------------------------------------------
(* The reference temperature (Open-Meteo).                                 *)

RefTemps == {None, Num(15), Num(16), Num(20)}
\* the reference temperatures Open-Meteo answers with in Spec
UpstreamRefTemps == {None, Num(16)}

\* what fetch_openmeteo_current does: it raises, or returns the `current`
\* dict, whose temperature_2m may be missing (.get gives None)
MeteoOutcomes ==
    {[fails |-> TRUE, current |-> [temperature_2m |-> None]]}
    \cup {[fails |-> FALSE, current |-> [temperature_2m |-> r]] : r \in UpstreamRefTemps}

----------------------------------------------------------------------------
(* Query parameters and parse_coordinate.  A parameter is absent (None),   *)
(* a string float() rejects, or a string float() parses to a number.       *)

ParamValues(x) == {None, Str, Num(x)}

Queries == {[lat |-> a, long |-> b, lon |-> c] :
               a \in ParamValues(0), b \in ParamValues(0), c \in ParamValues(10)}

NoQuery == [lat |-> None, long |-> None, lon |-> None]

\* queries of NonFiniteSpec: float() also parses "nan" and "inf"
NonFiniteQueries ==
    {[lat |-> a, long |-> b, lon |-> Num(10)] :
        a \in {Num(0), Num(NaN), Num(Infinity)},
        b \in {None, Num(0), Num(NaN), Num(Infinity)}}

query_get(query_params, name) ==
    CASE name = "lat" -> query_params.lat
      [] name = "long" -> query_params.long
      [] name = "lon" -> query_params.lon
      [] OTHER -> None

\* variant: the fallback is also tried when the primary does not parse
parse_coordinate_lenient(query_params, primary, fallback) ==
    LET first == query_get(query_params, primary)
        value == IF (is_None(first) \/ float_raises(first)) /\ fallback # ""
                 THEN query_get(query_params, fallback)
                 ELSE first
    IN  IF is_None(value) THEN [raised |-> FALSE, value |-> None]
        ELSE IF float_raises(value) THEN [raised |-> TRUE, value |-> None]
        ELSE [raised |-> FALSE, value |-> value]

\* fallback "" stands for fallback=None
parse_coordinate(query_params, primary, fallback) ==
    LET first == query_get(query_params, primary)
        value == IF is_None(first) /\ fallback # ""
                 THEN query_get(query_params, fallback)
                 ELSE first
    IN  IF is_None(value) THEN [raised |-> FALSE, value |-> None]
        ELSE IF float_raises(value) THEN [raised |-> TRUE, value |-> None]
        ELSE [raised |-> FALSE, value |-> value]

----------------------------------------------------------------------------
(* Responses.  `out` is what a handler sent and what it did on the way:    *)
(*   status, x_cache_status, body      the HTTP response                   *)
(*   node, distance_km, check_diff     the /api payload (node = position   *)
(*                                     of the selected station, 0 = none)  *)
(*   gnd, gnd_data                     get_nodes_data: "HIT", "MISS",      *)
(*                                     "raised" or "" (not called), and    *)
(*                                     the bytes it returned               *)
(*   nodes_fetches, meteo_fetches      upstream fetch attempts made        *)
(*   ref_ok, ref                       the reference temperature obtained  *)

Out(status, x_cache_status, body) ==
    [status |-> status, x_cache_status |-> x_cache_status, body |-> body,
     node |-> 0, distance_km |-> 0, check_diff |-> None,
     gnd |-> "", gnd_data |-> NoData, nodes_fetches |-> 0, meteo_fetches |-> 0,
     ref_ok |-> FALSE, ref |-> None]

\* the fields get_nodes_data's outcome g contributes
WithNodes(out, g) ==
    [out EXCEPT !.gnd = IF g.raised THEN "raised" ELSE g.status,
                !.gnd_data = g.data,
                !.nodes_fetches = g.fetches]

WithMeteo(out, meteo) ==
    [out EXCEPT !.meteo_fetches = 1,
                !.ref_ok = ~meteo.fails,
                !.ref = IF meteo.fails THEN None ELSE meteo.current.temperature_2m]

\* round(temp_diff, 2) if temp_diff is not None else None; temperatures are
\* whole degrees in the model, which round(x, 2) leaves as they are
check_diff_temperature(temp_diff) ==
    IF ~is_None(temp_diff) THEN Num(temp_diff.v) ELSE None

\* the response_payload of a 200 answer
station_payload(out, cache_status, selected_node, match_details) ==
    [out EXCEPT !.status = 200, !.x_cache_status = cache_status, !.body = "station",
                !.node = selected_node,
                !.distance_km = round2_km(match_details.distance_km),
                !.check_diff = check_diff_temperature(match_details.temp_diff)]

\* variant: no fallback by distance, 404 as soon as no station is complete
api_select_no_fallback(out, cache_status, user_lat, user_lon, nodes, openmeteo_current) ==
    LET best == find_best_matching_node(user_lat, user_lon, nodes, openmeteo_current)
    IN  IF best.raised THEN [out EXCEPT !.status = 500, !.body = "error"]
        ELSE IF best.node = 0 THEN [out EXCEPT !.status = 404, !.body = "error"]
        ELSE station_payload(out, cache_status, best.node, best.details)

\* the selection part of handle_api's try block, after both fetches
api_select(out, cache_status, user_lat, user_lon, nodes, openmeteo_current) ==
    LET best == find_best_matching_node(user_lat, user_lon, nodes, openmeteo_current)
        near == find_nearest_node(user_lat, user_lon, nodes)
    IN  IF best.raised THEN [out EXCEPT !.status = 500, !.body = "error"]
        ELSE IF best.node = 0
        THEN \* fallback by distance alone
             IF near.raised THEN [out EXCEPT !.status = 500, !.body = "error"]
             ELSE IF near.nearest = 0 THEN [out EXCEPT !.status = 404, !.body = "error"]
             ELSE station_payload(out, cache_status, near.nearest,
                      [distance_km |-> near.min_distance, temp_diff |-> None])
        ELSE station_payload(out, cache_status, best.node, best.details)

\* variant: a failed reference fetch is treated as "no reference"
api_after_nodes_without_reference(g, user_lat, user_lon) ==
    LET fetched == WithNodes(Out(500, "", "error"), g)
    IN  IF g.raised \/ ~g.data.json_ok
        THEN {[cache |-> g.cache, out |-> fetched, end |-> g.end]}
        ELSE {[cache |-> g.cache,
               out |-> api_select(WithMeteo(fetched, meteo), g.status,
                           user_lat, user_lon, g.data.nodes, meteo.current),
               end |-> e] :
                 meteo \in MeteoOutcomes, e \in FetchEnds(g.end)}

\* handle_api's try block once get_nodes_data has returned g
api_after_nodes(g, user_lat, user_lon) ==
    LET fetched == WithNodes(Out(500, "", "error"), g)
    IN  IF g.raised \/ ~g.data.json_ok
        THEN {[cache |-> g.cache, out |-> fetched, end |-> g.end]}
        ELSE {[cache |-> g.cache,
               out |-> IF meteo.fails THEN WithMeteo(fetched, meteo)
                       ELSE api_select(WithMeteo(fetched, meteo), g.status,
                                user_lat, user_lon, g.data.nodes, meteo.current),
               end |-> e] :
                 meteo \in MeteoOutcomes, e \in FetchEnds(g.end)}

\* variant: a request that ends in 500 leaves the cache as it found it
handle_api_restores_cache(query_params, c, current_time) ==
    LET lat == parse_coordinate(query_params, "lat", "")
        lon == parse_coordinate(query_params, "long", "lon")
        invalid == {[cache |-> c, out |-> Out(400, "", "error"), end |-> current_time]}
    IN  IF lat.raised \/ lon.raised THEN invalid
        ELSE IF is_None(lat.value) \/ is_None(lon.value) THEN invalid
        ELSE {[r EXCEPT !.cache = IF r.out.status = 500 THEN c ELSE r.cache] :
                 r \in UNION {api_after_nodes(g, lat.value.v, lon.value.v) :
                                 g \in get_nodes_data(c, current_time)}}

\* handle_api called at current_time: the set of its possible outcomes,
\* each [cache |-> the cache afterwards, out |-> the response, end |-> when]
handle_api(query_params, c, current_time) ==
    LET lat == parse_coordinate(query_params, "lat", "")
        lon == parse_coordinate(query_params, "long", "lon")
        invalid == {[cache |-> c, out |-> Out(400, "", "error"), end |-> current_time]}
    IN  IF lat.raised \/ lon.raised THEN invalid
        ELSE IF is_None(lat.value) \/ is_None(lon.value) THEN invalid
        ELSE UNION {api_after_nodes(g, lat.value.v, lon.value.v) :
                       g \in get_nodes_data(c, current_time)}

\* variant: /nodes fetches on every request and keeps nothing
proxy_nodes_without_cache(c, current_time) ==
    {[cache |-> c,
      out |-> IF g.raised THEN WithNodes(Out(500, "", "error"), g)
              ELSE WithNodes(Out(200, g.status, "raw"), g),
      end |-> g.end] : g \in get_nodes_data(EmptyCache, current_time)}

\* proxy_nodes
proxy_nodes(c, current_time) ==
    {[cache |-> g.cache,
      out |-> IF g.raised THEN WithNodes(Out(500, "", "error"), g)
              ELSE WithNodes(Out(200, g.status, "raw"), g),
      end |-> g.end] : g \in get_nodes_data(c, current_time)}

serve_html(c, current_time) ==
    {[cache |-> c, out |-> Out(200, "", "html"), end |-> current_time]}

do_GET(path, query_params, c, current_time) ==
    IF path = "/" THEN serve_html(c, current_time)
    ELSE IF path = "/nodes" THEN proxy_nodes(c, current_time)
    ELSE IF path = "/api" THEN handle_api(query_params, c, current_time)
    ELSE {[cache |-> c, out |-> Out(404, "", "error"), end |-> current_time]}

----------------------------------------------------------------------------
(* The server: one request at a time (HTTPServer.serve_forever).  resp is  *)
(* Idle between requests; a request is answered in one step, the response  *)
(* is then delivered, and time passes while the server waits.              *)

\* lastRefresh before any refresh
NoTime == 0 - 1

Idle == [path |-> "", query |-> NoQuery, out |-> Out(0, "", "")]

SelIdle == [user_lat |-> 0, user_lon |-> 0, nodes |-> <<>>,
            openmeteo_current |-> [temperature_2m |-> None],
            called |-> FALSE,
            result |-> [raised |-> FALSE, node |-> 0, details |-> NoCandidate]]

\* hist before any request.  It describes the requests already delivered:
\* refresher is the path of the last one whose get_nodes_data call returned
\* MISS, ref_failed tells whether that request's reference fetch failed,
\* and failed tells whether the last get_nodes_data call raised
NoHist == [refresher |-> "", ref_failed |-> FALSE, failed |-> FALSE]

\* hist once the request answered by r has been delivered
delivered(h, r) ==
    CASE r.out.gnd = "MISS" ->
             [refresher |-> r.path,
              ref_failed |-> (r.out.meteo_fetches = 1 /\ ~r.out.ref_ok),
              failed |-> FALSE]
      [] r.out.gnd = "HIT" -> [h EXCEPT !.failed = FALSE]
      [] r.out.gnd = "raised" -> [h EXCEPT !.failed = TRUE]
      [] OTHER -> h

\* the frame of a get_nodes_data call that has not started
IdleCall == [pc |-> "idle", current_time |-> 0, cache_age |-> 0,
             cache_is_valid |-> FALSE, data |-> NoData]

Threads == 1..MaxCalls

NoCalls == [t \in Threads |-> IdleCall]

NoRefreshes == [fetched |-> {}, last |-> EmptyCache]

Init ==
    /\ cache = EmptyCache
    /\ now = 0
    /\ resp = Idle
    /\ lastRefresh = NoTime
    /\ hist = NoHist
    /\ sel = SelIdle
    /\ calls = NoCalls
    /\ refreshes = NoRefreshes

\* one GET request, answered by do_GET; time passes while it fetches
Answer(path, query_params) ==
    /\ \E r \in do_GET(path, query_params, cache, now) :
        /\ cache' = r.cache
        /\ now' = r.end
        /\ resp' = [path |-> path, query |-> query_params, out |-> r.out]
        /\ lastRefresh' = IF r.out.gnd = "MISS" THEN now ELSE lastRefresh
    /\ UNCHANGED <<hist, sel, calls, refreshes>>

GetRoot ==
    /\ resp = Idle
    /\ Answer("/", NoQuery)

GetNodes ==
    /\ resp = Idle
    /\ Answer("/nodes", NoQuery)

GetApi ==
    /\ resp = Idle
    /\ \E q \in Queries : Answer("/api", q)

GetOther ==
    /\ resp = Idle
    /\ Answer("/other", NoQuery)

\* the response has been written; the server waits for the next request
Deliver ==
    /\ resp # Idle
    /\ resp' = Idle
    /\ hist' = delivered(hist, resp)
    /\ UNCHANGED <<cache, now, lastRefresh, sel, calls, refreshes>>

\* time passes between requests
Tick ==
    /\ resp = Idle
    /\ \E t \in Instants : t > now /\ now' = t
    /\ UNCHANGED <<cache, resp, lastRefresh, hist, sel, calls, refreshes>>

Next == GetRoot \/ GetNodes \/ GetApi \/ GetOther \/ Deliver \/ Tick

Spec == Init /\ [][Next]_vars

----------------------------------------------------------------------------
(* The server asked for /api with coordinates that may be NaN or infinite. *)

GetApiNonFinite ==
    /\ resp = Idle
    /\ \E q \in NonFiniteQueries : Answer("/api", q)

NonFiniteNext == GetApiNonFinite \/ Deliver \/ Tick

NonFiniteSpec == Init /\ [][NonFiniteNext]_vars

----------------------------------------------------------------------------
(* The selector alone, on every station list of up to MaxNodes stations.   *)

UserLats == {0, 10}
UserLons == {0, 10}

SelInit ==
    /\ cache = EmptyCache
    /\ now = 0
    /\ resp = Idle
    /\ lastRefresh = NoTime
    /\ hist = NoHist
    /\ calls = NoCalls
    /\ refreshes = NoRefreshes
    /\ sel \in {[SelIdle EXCEPT !.user_lat = la, !.user_lon = lo, !.nodes = ns,
                                !.openmeteo_current = [temperature_2m |-> r]] :
                   la \in UserLats, lo \in UserLons,
                   ns \in SeqsUpTo(Stations, MaxNodes), r \in RefTemps}

Select ==
    /\ ~sel.called
    /\ sel' = [sel EXCEPT !.called = TRUE,
                          !.result = find_best_matching_node(sel.user_lat, sel.user_lon,
                                         sel.nodes, sel.openmeteo_current)]
    /\ UNCHANGED <<cache, now, resp, lastRefresh, hist, calls, refreshes>>

SelNext == Select

SelSpec == SelInit /\ [][SelNext]_vars

----------------------------------------------------------------------------
(* get_nodes_data run by several calls at once, one statement per step     *)
(* (the handler run by a threaded server instead of HTTPServer).  The      *)
(* frame of a call holds its local variables; pc names the line it is to   *)
(* execute next.                                                           *)

\* the bodies the upstream serves in RaceSpec
RacePayloads == {Bytes(<<StA>>), Bytes(<<StE>>)}

\* the instants at which RaceSpec lets time() be read
RaceInstants == {0, 1, 300}

Frame(t, f) == [calls EXCEPT ![t] = f]

\* line 63: current_time = time()
read_time(t) ==
    /\ calls[t].pc = "idle"
    /\ calls' = Frame(t, [calls[t] EXCEPT !.pc = "cache_age", !.current_time = now])
    /\ UNCHANGED <<cache, refreshes, now, resp, lastRefresh, hist, sel>>

\* line 64: cache_age = current_time - cache['timestamp']
read_cache_age(t) ==
    /\ calls[t].pc = "cache_age"
    /\ calls' = Frame(t, [calls[t] EXCEPT
                             !.pc = "cache_is_valid",
                             !.cache_age = calls[t].current_time - cache.timestamp])
    /\ UNCHANGED <<cache, refreshes, now, resp, lastRefresh, hist, sel>>

\* line 65: cache_is_valid = cache['data'] is not None and cache_age < CACHE_DURATION
read_cache_is_valid(t) ==
    /\ calls[t].pc = "cache_is_valid"
    /\ calls' = Frame(t, [calls[t] EXCEPT
                             !.pc = "if",
                             !.cache_is_valid =
                                 (cache.data # NoData /\ calls[t].cache_age < CACHE_DURATION)])
    /\ UNCHANGED <<cache, refreshes, now, resp, lastRefresh, hist, sel>>

\* lines 67-69: return cache['data'], 'HIT'
return_hit(t) ==
    /\ calls[t].pc = "if"
    /\ calls[t].cache_is_valid
    /\ calls' = Frame(t, IdleCall)
    /\ UNCHANGED <<cache, refreshes, now, resp, lastRefresh, hist, sel>>

\* line 67, cache not valid: on to the fetch
branch_to_fetch(t) ==
    /\ calls[t].pc = "if"
    /\ ~calls[t].cache_is_valid
    /\ calls' = Frame(t, [calls[t] EXCEPT !.pc = "urlopen"])
    /\ UNCHANGED <<cache, refreshes, now, resp, lastRefresh, hist, sel>>

\* lines 72-73, urlopen or read raises: the call ends
fetch_raises(t) ==
    /\ calls[t].pc = "urlopen"
    /\ calls' = Frame(t, IdleCall)
    /\ UNCHANGED <<cache, refreshes, now, resp, lastRefresh, hist, sel>>

\* lines 72-73: data = response.read()
fetch_reads(t) ==
    /\ calls[t].pc = "urlopen"
    /\ \E p \in RacePayloads :
        /\ calls' = Frame(t, [calls[t] EXCEPT !.pc = "store_data", !.data = p])
        /\ refreshes' = [refreshes EXCEPT
                            !.fetched = @ \cup {[data |-> p,
                                                 timestamp |-> calls[t].current_time]}]
    /\ UNCHANGED <<cache, now, resp, lastRefresh, hist, sel>>

\* line 74: cache['data'] = data
store_data(t) ==
    /\ calls[t].pc = "store_data"
    /\ cache' = [cache EXCEPT !.data = calls[t].data]
    /\ calls' = Frame(t, [calls[t] EXCEPT !.pc = "store_timestamp"])
    /\ UNCHANGED <<refreshes, now, resp, lastRefresh, hist, sel>>

\* lines 75-77: cache['timestamp'] = current_time; return data, 'MISS'
store_timestamp(t) ==
    /\ calls[t].pc = "store_timestamp"
    /\ cache' = [cache EXCEPT !.timestamp = calls[t].current_time]
    /\ refreshes' = [refreshes EXCEPT
                        !.last = [data |-> calls[t].data,
                                  timestamp |-> calls[t].current_time]]
    /\ calls' = Frame(t, IdleCall)
    /\ UNCHANGED <<now, resp, lastRefresh, hist, sel>>

\* one statement of one call
Statement(t) ==
    \/ read_time(t) \/ read_cache_age(t) \/ read_cache_is_valid(t)
    \/ return_hit(t) \/ branch_to_fetch(t)
    \/ fetch_raises(t) \/ fetch_reads(t)
    \/ store_data(t) \/ store_timestamp(t)

\* time passes while the calls run
RaceTick ==
    /\ \E i \in RaceInstants : i > now /\ now' = i
    /\ UNCHANGED <<cache, resp, lastRefresh, hist, sel, calls, refreshes>>

RaceNext == (\E t \in Threads : Statement(t)) \/ RaceTick

RaceSpec == Init /\ [][RaceNext]_vars

----------------------------------------------------------------------------
(* Vocabulary of the properties.  A request step is a step from Idle to a  *)
(* response; resp' is then the request and its answer, and the unprimed    *)
(* variables are the state the request started in.                         *)

RequestStep == resp = Idle /\ resp' # Idle

\* the request just answered called get_nodes_data and it returned
NodesReturned == resp.out.gnd \in {"HIT", "MISS"}

----------------------------------------------------------------------------
(* C1: on a server started with an empty cache, a get_nodes_data call that *)
(* returns is a MISS when no earlier call refreshed the cache, a HIT when  *)
(* it starts less than CACHE_DURATION after the start of the last          *)
(* refreshing call, and a MISS again when it starts CACHE_DURATION or more *)
(* after it; a refresh stores the time read at the start of the call.      *)
C1_MissHitMissByStartTime ==
    [][(RequestStep /\ resp'.out.gnd \in {"HIT", "MISS"}) =>
          /\ (resp'.out.gnd = "MISS") <=>
                 (lastRefresh = NoTime \/ now - lastRefresh >= CACHE_DURATION)
          /\ (resp'.out.gnd = "MISS") => cache'.timestamp = now]_vars

\* a call at 299 s is a HIT on the entry a call at 0 s fetched, and the
\* call itself took a second
C1_Witness ==
    /\ resp.out.gnd = "HIT"
    /\ lastRefresh = 0
    /\ cache.timestamp = 0
    /\ now = 300

(* C2: get_nodes_data returns HIT exactly when the cache holds data and    *)
(* now - cache.timestamp < 300; a HIT returns the stored bytes, makes no   *)
(* upstream fetch and leaves cache.data and cache.timestamp as they were.  *)
C2_HitIffFreshAndFrame ==
    [][(RequestStep /\ resp'.out.gnd # "") =>
          /\ (resp'.out.gnd = "HIT") <=>
                 (cache.data # NoData /\ now - cache.timestamp < CACHE_DURATION)
          /\ (resp'.out.gnd = "HIT") =>
                 /\ resp'.out.gnd_data = cache.data
                 /\ resp'.out.nodes_fetches = 0
                 /\ cache' = cache]_vars

C2_Witness ==
    /\ resp.out.gnd = "HIT"
    /\ resp.out.gnd_data = cache.data
    /\ cache.data # NoData
    /\ now - cache.timestamp = 299

(* C3: when the station-list fetch fails inside get_nodes_data the cache   *)
(* is left as it was (empty stays empty, an expired entry keeps data and   *)
(* timestamp) and the failure reaches the caller, which answers 500.       *)
C3_FetchFailureLeavesCache ==
    [][(RequestStep /\ resp'.out.nodes_fetches = 1 /\ resp'.out.gnd # "MISS") =>
          /\ resp'.out.gnd = "raised"
          /\ cache' = cache
          /\ resp'.out.status = 500]_vars

\* the refresh of an expired entry failed and the entry is still there
C3_Witness ==
    /\ resp.out.gnd = "raised"
    /\ cache.data # NoData
    /\ now - cache.timestamp >= CACHE_DURATION

----------------------------------------------------------------------------
(* Vocabulary of the /api properties.                                      *)

Present(x) == x.t # "none"

\* the station has all five required fields
HasAllFive(node) ==
    /\ Present(node.latitude) /\ Present(node.longitude)
    /\ Present(node.temperature) /\ Present(node.relative_humidity)
    /\ Present(node.barometric_pressure)

HasCoordinates(node) == Present(node.latitude) /\ Present(node.longitude)

\* the longitude parameter in effect: long, or lon when long is absent
EffectiveLong(q) == IF Present(q.long) THEN q.long ELSE q.lon

ValidCoordinates(q) == q.lat.t = "num" /\ EffectiveLong(q).t = "num"

\* the station list the answered request worked on
ServedNodes == resp.out.gnd_data.nodes

\* a /api request with valid coordinates whose two upstream fetches
\* succeeded and whose station list has no complete station
ApiNoCompleteStation ==
    /\ resp.path = "/api"
    /\ ValidCoordinates(resp.query)
    /\ NodesReturned
    /\ resp.out.ref_ok
    /\ \A i \in 1..Len(ServedNodes) : ~HasAllFive(ServedNodes[i])

DistanceTo(q, node) ==
    calculate_distance(q.lat.v, EffectiveLong(q).v, node.latitude.v, node.longitude.v)

C10_InvalidCoordinatesIs400 ==
    [][(RequestStep /\ resp'.path = "/api" /\ ~ValidCoordinates(resp'.query)) =>
          /\ resp'.out.status = 400
          /\ resp'.out.gnd = ""
          /\ resp'.out.nodes_fetches = 0
          /\ resp'.out.meteo_fetches = 0
          /\ cache' = cache
          /\ now' = now]_vars

\* long does not parse although lon would, and the cache entry had expired
C10_Witness ==
    /\ resp.path = "/api"
    /\ resp.out.status = 400
    /\ resp.query.lat = Num(0)
    /\ resp.query.long = Str
    /\ resp.query.lon = Num(10)
    /\ cache.data # NoData
    /\ now - cache.timestamp >= CACHE_DURATION

----------------------------------------------------------------------------
(* Vocabulary of the selector properties (SelSpec).                        *)

SelRef == sel.openmeteo_current.temperature_2m

\* find_best_matching_node was applied and returned (it did not raise)
SelReturned == sel.called /\ ~sel.result.raised

\* the positions of the stations that have all five fields
Candidates == {i \in 1..Len(sel.nodes) : HasAllFive(sel.nodes[i])}

SelDistance(i) ==
    calculate_distance(sel.user_lat, sel.user_lon,
                       sel.nodes[i].latitude.v, sel.nodes[i].longitude.v)

SelTempDiff(i) == Abs(sel.nodes[i].temperature.v - SelRef.v)

WithinTolerance == {i \in Candidates : SelTempDiff(i) <= 2}

(* C5: for every station list and every reference temperature, present or *)
(* absent, a station returned by find_best_matching_node has all five      *)
(* fields non-null, and (None, None) is returned exactly when no station   *)
(* of the list has all five.                                               *)
C5_ReturnsOnlyCompleteStations ==
    sel.called =>
        /\ sel.result.node # 0 =>
               /\ sel.result.node \in 1..Len(sel.nodes)
               /\ HasAllFive(sel.nodes[sel.result.node])
               /\ sel.result.details.node = sel.result.node
        /\ (~sel.result.raised /\ sel.result.node = 0) <=> Candidates = {}
        /\ sel.result.node = 0 => sel.result.details = NoCandidate

\* a station with coordinates but a missing field lies strictly nearer than
\* the station returned
C5_Witness ==
    /\ SelReturned
    /\ sel.result.node # 0
    /\ \E i \in 1..Len(sel.nodes) :
           /\ ~HasAllFive(sel.nodes[i])
           /\ sel.nodes[i].latitude.t = "num"
           /\ sel.nodes[i].longitude.t = "num"
           /\ SelDistance(i) < SelDistance(sel.result.node)

(* C6: with a reference temperature and at least one candidate within 2    *)
(* degrees of it (inclusive), the candidate returned is the nearest of     *)
(* those within tolerance, even when a candidate outside tolerance is      *)
(* nearer; of equally near ones the earliest in the list.                  *)
C6_NearestWithinTolerance ==
    (SelReturned /\ Present(SelRef) /\ WithinTolerance # {}) =>
        /\ sel.result.node \in WithinTolerance
        /\ \A j \in WithinTolerance :
               \/ SelDistance(sel.result.node) < SelDistance(j)
               \/ (SelDistance(sel.result.node) = SelDistance(j) /\ sel.result.node <= j)
        /\ sel.result.details.distance_km = SelDistance(sel.result.node)
        /\ sel.result.details.temp_diff = Num(SelTempDiff(sel.result.node))

\* the station returned is exactly 2 degrees off, a station outside
\* tolerance is nearer, and a later station within tolerance is as near
C6_Witness ==
    /\ SelReturned
    /\ Present(SelRef)
    /\ sel.result.node \in WithinTolerance
    /\ SelTempDiff(sel.result.node) = 2
    /\ \E j \in Candidates \ WithinTolerance :
           SelDistance(j) < SelDistance(sel.result.node)
    /\ \E k \in WithinTolerance :
           /\ k > sel.result.node
           /\ sel.nodes[k] # sel.nodes[sel.result.node]
           /\ SelDistance(k) = SelDistance(sel.result.node)

(* C7: with a reference temperature and every candidate more than 2        *)
(* degrees off, the candidate returned has the lexicographically smallest  *)
(* pair (temperature difference, distance); of candidates equal in both    *)
(* the earliest in the list.                                               *)
C7_SmallestDeviationThenDistance ==
    (SelReturned /\ Present(SelRef) /\ Candidates # {} /\ WithinTolerance = {}) =>
        /\ sel.result.node \in Candidates
        /\ \A j \in Candidates :
               \/ SelTempDiff(sel.result.node) < SelTempDiff(j)
               \/ /\ SelTempDiff(sel.result.node) = SelTempDiff(j)
                  /\ SelDistance(sel.result.node) < SelDistance(j)
               \/ /\ SelTempDiff(sel.result.node) = SelTempDiff(j)
                  /\ SelDistance(sel.result.node) = SelDistance(j)
                  /\ sel.result.node <= j
        /\ sel.result.details.temp_diff = Num(SelTempDiff(sel.result.node))

\* a candidate with a larger deviation is nearer, and a later, different
\* candidate equals the returned one in deviation and distance
C7_Witness ==
    /\ SelReturned
    /\ Present(SelRef)
    /\ WithinTolerance = {}
    /\ sel.result.node \in Candidates
    /\ \E j \in Candidates :
           /\ SelTempDiff(j) > SelTempDiff(sel.result.node)
           /\ SelDistance(j) < SelDistance(sel.result.node)
    /\ \E k \in Candidates :
           /\ k > sel.result.node
           /\ sel.nodes[k] # sel.nodes[sel.result.node]
           /\ SelTempDiff(k) = SelTempDiff(sel.result.node)
           /\ SelDistance(k) = SelDistance(sel.result.node)

(* C8: without a reference temperature the candidate returned is the       *)
(* nearest complete station, whatever the stations' temperatures; of       *)
(* equally near ones the earliest in the list.                             *)
C8_NearestWithoutReference ==
    (SelReturned /\ SelRef = None /\ Candidates # {}) =>
        /\ sel.result.node \in Candidates
        /\ \A j \in Candidates :
               \/ SelDistance(sel.result.node) < SelDistance(j)
               \/ (SelDistance(sel.result.node) = SelDistance(j) /\ sel.result.node <= j)
        /\ sel.result.details.distance_km = SelDistance(sel.result.node)

\* a later candidate with another temperature is as near as the one
\* returned, and a farther candidate comes first in the list
C8_Witness ==
    /\ SelReturned
    /\ SelRef = None
    /\ sel.result.node \in Candidates
    /\ \E k \in Candidates :
           /\ k > sel.result.node
           /\ sel.nodes[k].temperature # sel.nodes[sel.result.node].temperature
           /\ SelDistance(k) = SelDistance(sel.result.node)
    /\ \E j \in Candidates :
           j < sel.result.node /\ SelDistance(j) > SelDistance(sel.result.node)

----------------------------------------------------------------------------
(* C11: a /api request with valid coordinates whose station-list fetch     *)
(* fails, or whose reference-temperature fetch fails, is answered 500 with *)
(* an error body and no station; when an expired entry exists and its      *)
(* refresh fails, get_nodes_data hands no data to the handler: the stale   *)
(* entry is not served.                                                    *)
C11_UpstreamFailureIs500 ==
    [][(/\ RequestStep
        /\ resp'.path = "/api"
        /\ ValidCoordinates(resp'.query)
        /\ \/ (resp'.out.nodes_fetches = 1 /\ resp'.out.gnd # "MISS")
           \/ (resp'.out.meteo_fetches = 1 /\ ~resp'.out.ref_ok)) =>
          /\ resp'.out.status = 500
          /\ resp'.out.body = "error"
          /\ resp'.out.node = 0
          /\ resp'.out.x_cache_status = ""
          /\ (resp'.out.gnd # "MISS" /\ resp'.out.gnd # "HIT") =>
                 resp'.out.gnd_data = NoData]_vars

\* the refresh of an expired entry failed under a /api request
C11_Witness ==
    /\ resp.path = "/api"
    /\ ValidCoordinates(resp.query)
    /\ resp.out.gnd = "raised"
    /\ resp.out.status = 500
    /\ cache.data # NoData
    /\ now - cache.timestamp >= CACHE_DURATION

----------------------------------------------------------------------------
(* Vocabulary of the get_nodes_data race (RaceSpec).                       *)

\* no call is between its fetch and its return
NoRefreshRunning ==
    \A t \in Threads : calls[t].pc \notin {"urlopen", "store_data", "store_timestamp"}

\* the cache pair is the empty pair or the data and start time of one fetch
EntryOfOneFetch == cache = EmptyCache \/ cache \in refreshes.fetched

(* C12: with get_nodes_data calls interleaved statement by statement, the  *)
(* pair (cache.data, cache.timestamp) is in every state the empty pair or  *)
(* the data and start time of one single fetch, and once no refresh is     *)
(* running it is the pair of the call that wrote last.                     *)
C12_EntryReplacedAsUnit ==
    /\ EntryOfOneFetch
    /\ NoRefreshRunning => cache = refreshes.last

----------------------------------------------------------------------------
(* C13: one request makes at most one station-list fetch attempt and at    *)
(* most one reference-temperature fetch attempt; and when the station-list *)
(* fetch of the last request that called get_nodes_data failed, the next   *)
(* request that calls it is not a HIT: it attempts the fetch again.        *)
C13_NoRetryWithinRequest ==
    [][RequestStep =>
          /\ resp'.out.nodes_fetches <= 1
          /\ resp'.out.meteo_fetches <= 1
          /\ (hist.failed /\ resp'.out.gnd # "") =>
                 /\ resp'.out.gnd # "HIT"
                 /\ resp'.out.nodes_fetches = 1]_vars

\* an entry was cached and expired, the request before this one failed to
\* refresh it, and this one fetched again and succeeded
C13_Witness ==
    /\ resp.out.gnd = "MISS"
    /\ resp.out.nodes_fetches = 1
    /\ hist.failed
    /\ hist.refresher # ""
    /\ lastRefresh >= CACHE_DURATION

----------------------------------------------------------------------------
(* Vocabulary of the non-finite coordinates (NonFiniteSpec).               *)

\* lat, or the longitude parameter in effect, parses to NaN or an infinity
NonFiniteCoordinates(q) ==
    /\ q.lat.t = "num" /\ EffectiveLong(q).t = "num"
    /\ ~is_finite(q.lat.v) \/ ~is_finite(EffectiveLong(q).v)

(* C14: a /api request whose lat or long parses to NaN or an infinity is   *)
(* answered 400 and makes no station-list fetch and no reference fetch.    *)
C14_NonFiniteCoordinatesIs400 ==
    (resp.path = "/api" /\ NonFiniteCoordinates(resp.query)) =>
        /\ resp.out.status = 400
        /\ resp.out.gnd = ""
        /\ resp.out.nodes_fetches = 0
        /\ resp.out.meteo_fetches = 0

----------------------------------------------------------------------------
(* C15: calculate_distance is symmetric: the distance from the user's      *)
(* point to a station equals the distance from the station to the user's   *)
(* point, for every station of the list with numeric coordinates.          *)
C15_DistanceSymmetric ==
    \A i \in 1..Len(sel.nodes) :
        LET node == sel.nodes[i]
        IN  (node.latitude.t = "num" /\ node.longitude.t = "num") =>
                calculate_distance(sel.user_lat, sel.user_lon,
                                   node.latitude.v, node.longitude.v)
                    = calculate_distance(node.latitude.v, node.longitude.v,
                                         sel.user_lat, sel.user_lon)

\* the selector computed the distance to a station that differs from the
\* user's point in latitude and in longitude, and returned that station
C15_Witness ==
    /\ SelReturned
    /\ sel.result.node \in 1..Len(sel.nodes)
    /\ sel.nodes[sel.result.node].latitude.v # sel.user_lat
    /\ sel.nodes[sel.result.node].longitude.v # sel.user_lon
    /\ sel.result.details.distance_km > 0

----------------------------------------------------------------------------
(* C16: /nodes and /api share one cache slot.  The slot changes only when  *)
(* a get_nodes_data call returns MISS, and then holds the bytes that call  *)
(* returned; a request to either endpoint that calls get_nodes_data less   *)
(* than CACHE_DURATION after the start of the last refreshing request,     *)
(* whichever endpoint that was, gets the stored bytes as a HIT without a   *)
(* station-list fetch; and the X-Cache-Status header of every 200 answer   *)
(* of /nodes and /api is the status get_nodes_data returned.               *)
C16_OneSharedCacheSlot ==
    [][/\ cache' # cache =>
              /\ RequestStep
              /\ resp'.out.gnd = "MISS"
              /\ cache'.data = resp'.out.gnd_data
       /\ (/\ RequestStep
           /\ resp'.out.gnd # ""
           /\ lastRefresh # NoTime
           /\ now - lastRefresh < CACHE_DURATION) =>
              /\ resp'.out.gnd = "HIT"
              /\ resp'.out.gnd_data = cache.data
              /\ resp'.out.nodes_fetches = 0
              /\ cache' = cache
       /\ (/\ RequestStep
           /\ resp'.path \in {"/nodes", "/api"}
           /\ resp'.out.status = 200) =>
              /\ resp'.out.gnd \in {"HIT", "MISS"}
              /\ resp'.out.x_cache_status = resp'.out.gnd]_vars

\* /nodes is served, 299 s later, the bytes a /api request fetched
C16_Witness ==
    /\ resp.path = "/nodes"
    /\ resp.out.status = 200
    /\ resp.out.x_cache_status = "HIT"
    /\ resp.out.gnd_data = cache.data
    /\ hist.refresher = "/api"
    /\ now - lastRefresh = 299

----------------------------------------------------------------------------
(* C17: when the reference response carries no temperature and the station *)
(* list has at least one complete station, the /api answer reports         *)
(* check_diff.temperature as null.                                         *)
C17_ZeroStandInNotReported ==
    (/\ resp.path = "/api"
     /\ resp.out.status = 200
     /\ resp.out.ref_ok
     /\ resp.out.ref = None
     /\ \E i \in 1..Len(ServedNodes) : HasAllFive(ServedNodes[i])) =>
        resp.out.check_diff = None

----------------------------------------------------------------------------
(* C18: find_best_matching_node raises no error, whatever the station      *)
(* list: it returns a station of the list or (None, None), also when a     *)
(* station has all five fields and its latitude, longitude or temperature  *)
(* is not a number.                                                        *)
C18_SelectorNeverRaises ==
    sel.called =>
        /\ ~sel.result.raised
        /\ sel.result.node \in 0..Len(sel.nodes)

----------------------------------------------------------------------------
(* C19: when the station-list fetch of a /api request succeeds (MISS) and  *)
(* its reference fetch then fails, the request is answered 500 and the     *)
(* cache holds the fetched bytes with the request's start time; a request  *)
(* that calls get_nodes_data less than CACHE_DURATION after that start is  *)
(* a HIT on those bytes and makes no station-list fetch.                   *)
C19_RefreshSurvivesLaterFailure ==
    [][/\ (/\ RequestStep
           /\ resp'.path = "/api"
           /\ resp'.out.gnd = "MISS"
           /\ resp'.out.meteo_fetches = 1
           /\ ~resp'.out.ref_ok) =>
              /\ resp'.out.status = 500
              /\ cache' = [data |-> resp'.out.gnd_data, timestamp |-> now]
       /\ (/\ RequestStep
           /\ resp'.out.gnd # ""
           /\ hist.refresher = "/api"
           /\ hist.ref_failed
           /\ now - lastRefresh < CACHE_DURATION) =>
              /\ resp'.out.gnd = "HIT"
              /\ resp'.out.nodes_fetches = 0
              /\ resp'.out.gnd_data = cache.data
              /\ cache.timestamp = lastRefresh]_vars

\* a request is a HIT 299 s after the start of a /api request that
\* refreshed the cache and then failed on its reference fetch
C19_Witness ==
    /\ resp.out.gnd = "HIT"
    /\ resp.out.nodes_fetches = 0
    /\ hist.refresher = "/api"
    /\ hist.ref_failed
    /\ cache.timestamp = lastRefresh
    /\ now - lastRefresh = 299

----------------------------------------------------------------------------
(* Vocabulary of the undecodable payload.                                  *)

\* the cache holds a body that does not decode, fetched less than
\* CACHE_DURATION ago
FreshGarbage ==
    /\ cache.data = Garbage
    /\ lastRefresh # NoTime
    /\ now - lastRefresh < CACHE_DURATION

(* C20: a body that does not decode as JSON is cached as it is and the     *)
(* /api request that fetched it is answered 500; for the following         *)
(* CACHE_DURATION seconds every /api request that passes the coordinate    *)
(* checks is answered 500 from the cached body without a station-list      *)
(* fetch, and every /nodes request is answered 200 with that body and      *)
(* X-Cache-Status HIT.                                                     *)
C20_UndecodablePayloadIsCached ==
    [][/\ (/\ RequestStep
           /\ resp'.path = "/api"
           /\ resp'.out.gnd = "MISS"
           /\ resp'.out.gnd_data = Garbage) =>
              /\ resp'.out.status = 500
              /\ resp'.out.meteo_fetches = 0
              /\ cache' = [data |-> Garbage, timestamp |-> now]
       /\ (/\ RequestStep
           /\ FreshGarbage
           /\ resp'.path = "/api"
           /\ ValidCoordinates(resp'.query)) =>
              /\ resp'.out.status = 500
              /\ resp'.out.gnd = "HIT"
              /\ resp'.out.gnd_data = Garbage
              /\ resp'.out.nodes_fetches = 0
              /\ cache' = cache
       /\ (/\ RequestStep
           /\ FreshGarbage
           /\ resp'.path = "/nodes") =>
              /\ resp'.out.status = 200
              /\ resp'.out.x_cache_status = "HIT"
              /\ resp'.out.body = "raw"
              /\ resp'.out.gnd_data = Garbage
              /\ resp'.out.nodes_fetches = 0
              /\ cache' = cache]_vars

\* a /api request is answered 500 from the undecodable body that a /api
\* request cached 299 s earlier
C20_Witness ==
    /\ resp.path = "/api"
    /\ resp.out.status = 500
    /\ resp.out.gnd = "HIT"
    /\ resp.out.gnd_data = Garbage
    /\ cache.data = Garbage
    /\ hist.refresher = "/api"
    /\ now - lastRefresh = 299

====
